---------------------------- MODULE Spec2Model ----------------------------
(***************************************************************************)
(* A model of cc.py: the Luhn checksum, the card-network classifier, the   *)
(* card synthesizer, the batch validator and the results panel of the      *)
(* Kivy application that ties them together.                               *)
(*                                                                         *)
(* Text is modelled character by character: a Python str is a sequence of  *)
(* one-character strings.  The characters are ASCII; for them str.isdigit  *)
(* holds exactly of "0".."9" and int() of such a character never fails.    *)
(***************************************************************************)
EXTENDS Integers, Sequences, FiniteSets, TLC

VARIABLES
    arg,          \* the argument of the function last applied
    ret,          \* what that function returned
    pc,           \* which function or handler ran last
    now,          \* datetime.now(), as <<year, month>>
    output,       \* ResultsPanel.output.text, as its sequence of lines
    raw_cc_data,  \* ResultsPanel.raw_cc_data
    pending,      \* the number of BIN lookups started and not yet answered
    generated,    \* history: the records generated since the panel was last cleared
    checked       \* history: generated, as it was when Check Generated last ran

vars == <<arg, ret, pc, now, output, raw_cc_data, pending, generated, checked>>

-----------------------------------------------------------------------------
(* Bounds of the model.                                                     *)

MaxLen == 4        \* longest string given to luhn_check, generate_check_digit, get_card_type
MaxMissing == 2    \* most digits a BIN given to generate_cc_from_bin lacks
MaxEntries == 2    \* most entries given to validate_cc_entries
MaxLines == 3      \* most lines in the panel when a handler appends to it
MaxCount == 2      \* most cards asked of one Generate Cards (the spinner allows 100)
MaxPending == 1    \* most BIN lookups in flight

-----------------------------------------------------------------------------
(* Strings.                                                                 *)

DigitChars == <<"0", "1", "2", "3", "4", "5", "6", "7", "8", "9">>

Digits == {DigitChars[i] : i \in 1..10}

\* c.isdigit()
IsDigit(c) == c \in Digits

\* int(d) of one digit character
DigitVal(c) == (CHOOSE i \in 1..10 : DigitChars[i] = c) - 1

\* str(d) of one digit 0..9
DigitStr(d) == DigitChars[d + 1]

\* ''.join(c for c in s if c.isdigit())
DigitsOnly(s) == SelectSeq(s, IsDigit)

\* s.startswith(p)
StartsWith(s, p) == Len(s) >= Len(p) /\ SubSeq(s, 1, Len(p)) = p

\* s.startswith((p1, p2, ...))
StartsWithAny(s, ps) == \E p \in ps : StartsWith(s, p)

\* list.reverse()
Reverse(s) == [i \in 1..Len(s) |-> s[Len(s) + 1 - i]]

\* all strings over alphabet A of length lo..hi
StringsOver(A, lo, hi) == UNION {[1..n -> A] : n \in lo..hi}

-----------------------------------------------------------------------------
(* luhn_check and generate_check_digit.                                     *)

\* The loop of luhn_check: enumerate(digits) numbers the reversed digits from
\* 0 (digits[k] here is the one with index k - 1 there).
RECURSIVE LuhnTotal(_, _, _)
LuhnTotal(digits, k, doubled) ==
    IF k > Len(digits) THEN 0
    ELSE LET i == k - 1
             digit == IF i % 2 = doubled
                      THEN (IF 2 * digits[k] > 9 THEN 2 * digits[k] - 9
                                                 ELSE 2 * digits[k])
                      ELSE digits[k]
         IN  digit + LuhnTotal(digits, k + 1, doubled)

luhn_check_even(card_number) ==
    LET cleaned == DigitsOnly(card_number)
        digits == Reverse([i \in 1..Len(cleaned) |-> DigitVal(cleaned[i])])
    IN  LuhnTotal(digits, 1, 0) % 10 = 0

luhn_check(card_number) ==
    LET cleaned == DigitsOnly(card_number)
        digits == Reverse([i \in 1..Len(cleaned) |-> DigitVal(cleaned[i])])
    IN  LuhnTotal(digits, 1, 1) % 10 = 0

generate_check_digit_odd(partial_card) ==
    LET cleaned == DigitsOnly(partial_card)
        digits == Reverse([i \in 1..Len(cleaned) |-> DigitVal(cleaned[i])])
    IN  (10 - (LuhnTotal(digits, 1, 1) % 10)) % 10

generate_check_digit(partial_card) ==
    LET cleaned == DigitsOnly(partial_card)
        digits == Reverse([i \in 1..Len(cleaned) |-> DigitVal(cleaned[i])])
    IN  (10 - (LuhnTotal(digits, 1, 0) % 10)) % 10

-----------------------------------------------------------------------------
(* get_card_type.                                                           *)

T_Visa == <<"V", "i", "s", "a">>
T_Mastercard == <<"M", "a", "s", "t", "e", "r", "c", "a", "r", "d">>
T_Amex == <<"A", "m", "e", "r", "i", "c", "a", "n", " ", "E", "x", "p", "r", "e", "s", "s">>
T_Diners == <<"D", "i", "n", "e", "r", "s", " ", "C", "l", "u", "b">>
T_Discover == <<"D", "i", "s", "c", "o", "v", "e", "r">>
T_JCB == <<"J", "C", "B">>
T_Unknown == <<"U", "n", "k", "n", "o", "w", "n">>

VisaPrefixes == {<<"4">>}
MastercardPrefixes ==
    {<<"5", "1">>, <<"5", "2">>, <<"5", "3">>, <<"5", "4">>, <<"5", "5">>,
     <<"2", "2">>, <<"2", "3">>, <<"2", "4">>, <<"2", "5">>, <<"2", "6">>,
     <<"2", "7">>}
AmexPrefixes == {<<"3", "4">>, <<"3", "7">>}
DinersPrefixes ==
    {<<"3", "0", "0">>, <<"3", "0", "1">>, <<"3", "0", "2">>, <<"3", "0", "3">>,
     <<"3", "0", "4">>, <<"3", "0", "5">>, <<"3", "6">>, <<"3", "8">>}
DiscoverPrefixes ==
    {<<"6", "0", "1", "1">>, <<"6", "5">>, <<"6", "4">>, <<"6", "2", "2">>}
JCBPrefixes == {<<"3", "5">>}

get_card_type_3x(card_number) ==
    LET digits == DigitsOnly(card_number)
    IN  IF StartsWithAny(digits, VisaPrefixes) THEN T_Visa
        ELSE IF StartsWithAny(digits, MastercardPrefixes) THEN T_Mastercard
        ELSE IF StartsWithAny(digits, AmexPrefixes) THEN T_Amex
        ELSE IF StartsWithAny(digits, DinersPrefixes \cup {<<"3", "5">>}) THEN T_Diners
        ELSE IF StartsWithAny(digits, DiscoverPrefixes) THEN T_Discover
        ELSE IF StartsWithAny(digits, JCBPrefixes) THEN T_JCB
        ELSE T_Unknown

get_card_type(card_number) ==
    LET digits == DigitsOnly(card_number)
    IN  IF StartsWithAny(digits, VisaPrefixes) THEN T_Visa
        ELSE IF StartsWithAny(digits, MastercardPrefixes) THEN T_Mastercard
        ELSE IF StartsWithAny(digits, AmexPrefixes) THEN T_Amex
        ELSE IF StartsWithAny(digits, DinersPrefixes) THEN T_Diners
        ELSE IF StartsWithAny(digits, DiscoverPrefixes) THEN T_Discover
        ELSE IF StartsWithAny(digits, JCBPrefixes) THEN T_JCB
        ELSE T_Unknown

-----------------------------------------------------------------------------
(* generate_cc_from_bin.                                                    *)

\* str(n) of an integer n >= 0
RECURSIVE IntStr(_)
IntStr(n) == IF n < 10 THEN <<DigitStr(n)>>
             ELSE IntStr(n \div 10) \o <<DigitStr(n % 10)>>

S_InvalidBIN == <<"I", "n", "v", "a", "l", "i", "d", " ", "B", "I", "N">>

\* card_length of generate_cc_from_bin
card_length(bin_number) ==
    IF get_card_type(DigitsOnly(bin_number)) = T_Amex THEN 15 ELSE 16

\* missing_digits of generate_cc_from_bin
missing_digits(bin_number) == card_length(bin_number) - Len(DigitsOnly(bin_number))

\* The random.randint(0, 9) draws one call of generate_cc_from_bin makes: none
\* when it returns the sentinel, missing_digits - 1 otherwise.
NumDraws(bin_number) ==
    IF missing_digits(bin_number) < 1 THEN 0 ELSE missing_digits(bin_number) - 1

\* generate_cc_from_bin, given the digits its random.randint(0, 9) calls return
generate_cc_from_bin_16(bin_number, draws) ==
    LET digits == DigitsOnly(bin_number)
        missing == 16 - Len(digits)
    IN  IF missing < 1 THEN S_InvalidBIN
        ELSE LET random_digits == [i \in 1..(missing - 1) |->
                                      DigitStr(IF i <= Len(draws) THEN draws[i] ELSE 0)]
                 partial_card == digits \o random_digits
             IN  partial_card \o IntStr(generate_check_digit(partial_card))

generate_cc_from_bin_lt2(bin_number, draws) ==
    LET digits == DigitsOnly(bin_number)
        missing == card_length(bin_number) - Len(digits)
    IN  IF missing < 2 THEN S_InvalidBIN
        ELSE LET random_digits == [i \in 1..(missing - 1) |-> DigitStr(draws[i])]
                 partial_card == digits \o random_digits
             IN  partial_card \o IntStr(generate_check_digit(partial_card))

generate_cc_from_bin(bin_number, draws) ==
    LET digits == DigitsOnly(bin_number)
        missing == card_length(bin_number) - Len(digits)
    IN  IF missing < 1 THEN S_InvalidBIN
        ELSE LET random_digits == [i \in 1..(missing - 1) |-> DigitStr(draws[i])]
                 partial_card == digits \o random_digits
             IN  partial_card \o IntStr(generate_check_digit(partial_card))

-----------------------------------------------------------------------------
(* validate_exp_date and validate_cvv.                                      *)

\* str.isspace of one character
IsSpace(c) == c = " "

\* s.strip()
RECURSIVE Strip(_)
Strip(s) ==
    IF s = <<>> THEN s
    ELSE IF IsSpace(s[1]) THEN Strip(Tail(s))
    ELSE IF IsSpace(s[Len(s)]) THEN Strip(SubSeq(s, 1, Len(s) - 1))
    ELSE s

\* s.isdigit(): every character a digit, and at least one character
IsDigitStr(s) == s # <<>> /\ \A i \in 1..Len(s) : IsDigit(s[i])

RECURSIVE DecimalValue(_)
DecimalValue(s) ==
    IF s = <<>> THEN 0
    ELSE 10 * DecimalValue(SubSeq(s, 1, Len(s) - 1)) + DigitVal(s[Len(s)])

\* int(s): the value of the literal, blanks around it ignored; -1 stands for
\* the ValueError of a string that is no integer literal.
ToInt(s) == IF IsDigitStr(Strip(s)) THEN DecimalValue(Strip(s)) ELSE -1

\* What a call that may raise gives back.
Returned(v) == [raised |-> FALSE, val |-> v, msg |-> <<>>]
Raised(m) == [raised |-> TRUE, val |-> FALSE, msg |-> m]

S_ValueError == <<"V", "a", "l", "u", "e", "E", "r", "r", "o", "r">>

\* datetime(y, m, 1) exists
IsDate(y, m) == y >= 1 /\ y <= 9999 /\ m >= 1 /\ m <= 12

\* datetime(y, m, 1) > current_date, where current_date lies in month
\* current_date[2] of year current_date[1]
After(y, m, current_date) ==
    y > current_date[1] \/ (y = current_date[1] /\ m > current_date[2])

validate_exp_date_uncaught(month, year, current_date) ==
    LET y == ToInt(year)
        m == ToInt(month)
    IN  IF y = -1 \/ m = -1 THEN Raised(S_ValueError)
        ELSE IF ~IsDate(y, m) THEN Returned(FALSE)
        ELSE Returned(After(y, m, current_date))

\* validate_exp_date: every exception of the try block is caught and gives False
validate_exp_date(month, year, current_date) ==
    LET y == ToInt(year)
        m == ToInt(month)
    IN  IF y = -1 \/ m = -1 THEN Returned(FALSE)
        ELSE IF ~IsDate(y, m) THEN Returned(FALSE)
        ELSE Returned(After(y, m, current_date))

validate_cvv(cvv) == IsDigitStr(cvv) /\ Len(cvv) \in {3, 4}

-----------------------------------------------------------------------------
(* validate_cc_entries.                                                     *)

S_Open == <<" ", "(">>
S_Arrow == <<")", " ", "→", " ">>
S_VALID == <<"V", "A", "L", "I", "D">>
S_INVALID == <<"I", "N", "V", "A", "L", "I", "D">>
S_ReasonsOpen == <<" ", "[">>
S_Comma == <<",", " ">>
S_ReasonsClose == <<"]">>
S_LuhnFailed ==
    <<"L", "u", "h", "n", " ", "c", "h", "e", "c", "k", " ", "f", "a", "i", "l", "e",
      "d">>
S_DateFailed ==
    <<"E", "x", "p", "i", "r", "e", "d", " ", "o", "r", " ", "i", "n", "v", "a", "l",
      "i", "d", " ", "d", "a", "t", "e">>
S_CvvFailed == <<"I", "n", "v", "a", "l", "i", "d", " ", "C", "V", "V">>
S_InvalidFormat ==
    <<"[", "I", "n", "v", "a", "l", "i", "d", " ", "F", "o", "r", "m", "a", "t", "]",
      " ">>
S_ErrorProcessing ==
    <<"[", "E", "r", "r", "o", "r", " ", "p", "r", "o", "c", "e", "s", "s", "i", "n",
      "g", "]", " ">>
S_Colon == <<":", " ">>
S_Summary == <<"\n", "S", "u", "m", "m", "a", "r", "y", ":", " ">>
S_Slash == <<"/">>
S_ValidCards == <<" ", "v", "a", "l", "i", "d", " ", "c", "a", "r", "d", "s">>

\* s.split("|")
RECURSIVE Split(_)
Split(s) ==
    IF \E i \in 1..Len(s) : s[i] = "|"
    THEN LET i == CHOOSE k \in 1..Len(s) :
                      s[k] = "|" /\ \A j \in 1..(k - 1) : s[j] # "|"
         IN  <<SubSeq(s, 1, i - 1)>> \o Split(SubSeq(s, i + 1, Len(s)))
    ELSE <<s>>

\* s[a:b]
Slice(s, a, b) == SubSeq(s, a + 1, IF b < Len(s) THEN b ELSE Len(s))

\* ' '.join([s[i:i+4] for i in range(0, len(s), 4)])
RECURSIVE GroupsOf4(_)
GroupsOf4(s) ==
    IF Len(s) <= 4 THEN s
    ELSE SubSeq(s, 1, 4) \o <<" ">> \o GroupsOf4(SubSeq(s, 5, Len(s)))

\* the display form of a number: 4-6-rest for American Express, else groups of 4
format_card(number, card_type) ==
    IF card_type = T_Amex
    THEN Slice(number, 0, 4) \o <<" ">> \o Slice(number, 4, 10) \o <<" ">>
         \o Slice(number, 10, Len(number))
    ELSE GroupsOf4(number)

\* ', '.join(reasons)
RECURSIVE JoinComma(_)
JoinComma(reasons) ==
    IF reasons = <<>> THEN <<>>
    ELSE IF Len(reasons) = 1 THEN reasons[1]
    ELSE reasons[1] \o S_Comma \o JoinComma(Tail(reasons))

\* The body of the for loop for one non-blank entry: the line appended to
\* results and whether valid_count is incremented.
validate_entry_nocvv(entry, current_date) ==
    LET parts == Split(entry)
    IN  IF Len(parts) < 4
        THEN [line |-> S_InvalidFormat \o entry, valid |-> FALSE]
        ELSE
          LET cc_number == DigitsOnly(parts[1])
              luhn_valid == luhn_check(cc_number)
              exp == validate_exp_date(parts[2], parts[3], current_date)
              cvv_valid == validate_cvv(parts[4])
              card_type == get_card_type(cc_number)
              is_valid == luhn_valid /\ exp.val
              reasons == (IF luhn_valid THEN <<>> ELSE <<S_LuhnFailed>>)
                         \o (IF exp.val THEN <<>> ELSE <<S_DateFailed>>)
                         \o (IF cvv_valid THEN <<>> ELSE <<S_CvvFailed>>)
              head == format_card(cc_number, card_type) \o S_Open \o card_type \o S_Arrow
          IN  IF exp.raised
              THEN [line |-> S_ErrorProcessing \o entry \o S_Colon \o exp.msg,
                    valid |-> FALSE]
              ELSE IF is_valid
              THEN [line |-> head \o S_VALID, valid |-> TRUE]
              ELSE [line |-> head \o S_INVALID \o S_ReasonsOpen \o JoinComma(reasons)
                             \o S_ReasonsClose,
                    valid |-> FALSE]

validate_entry(entry, current_date) ==
    LET parts == Split(entry)
    IN  IF Len(parts) < 4
        THEN [line |-> S_InvalidFormat \o entry, valid |-> FALSE]
        ELSE
          LET cc_number == DigitsOnly(parts[1])
              luhn_valid == luhn_check(cc_number)
              exp == validate_exp_date(parts[2], parts[3], current_date)
              cvv_valid == validate_cvv(parts[4])
              card_type == get_card_type(cc_number)
              is_valid == luhn_valid /\ exp.val /\ cvv_valid
              reasons == (IF luhn_valid THEN <<>> ELSE <<S_LuhnFailed>>)
                         \o (IF exp.val THEN <<>> ELSE <<S_DateFailed>>)
                         \o (IF cvv_valid THEN <<>> ELSE <<S_CvvFailed>>)
              head == format_card(cc_number, card_type) \o S_Open \o card_type \o S_Arrow
          IN  IF exp.raised
              THEN [line |-> S_ErrorProcessing \o entry \o S_Colon \o exp.msg,
                    valid |-> FALSE]
              ELSE IF is_valid
              THEN [line |-> head \o S_VALID, valid |-> TRUE]
              ELSE [line |-> head \o S_INVALID \o S_ReasonsOpen \o JoinComma(reasons)
                             \o S_ReasonsClose,
                    valid |-> FALSE]

\* f"\nSummary: {valid_count}/{total_count} valid cards"
summary_line(valid_count, total_count) ==
    S_Summary \o IntStr(valid_count) \o S_Slash \o IntStr(total_count) \o S_ValidCards

\* The for loop of validate_cc_entries from entry k on, then the summary.
RECURSIVE ValidateFrom(_, _, _, _, _, _)
ValidateFrom(entries, k, results, valid_count, total_count, current_date) ==
    IF k > Len(entries)
    THEN Append(results, summary_line(valid_count, total_count))
    ELSE IF Strip(entries[k]) = <<>>
    THEN ValidateFrom(entries, k + 1, results, valid_count, total_count, current_date)
    ELSE LET r == validate_entry(entries[k], current_date)
         IN  ValidateFrom(entries, k + 1, Append(results, r.line),
                          IF r.valid THEN valid_count + 1 ELSE valid_count,
                          total_count + 1, current_date)

validate_cc_entries_skipshort(entries, current_date) ==
    ValidateFrom(SelectSeq(entries, LAMBDA e : Len(Split(e)) >= 4 \/ Strip(e) = <<>>),
                 1, <<>>, 0, 0, current_date)

validate_cc_entries(entries, current_date) ==
    ValidateFrom(entries, 1, <<>>, 0, 0, current_date)

-----------------------------------------------------------------------------
(* The functions applied to bounded inputs.                                 *)

NoDate == <<0, 0>>

\* The variables of the application, at rest while a function is under test.
AppIdle ==
    /\ now = NoDate
    /\ output = <<>>
    /\ raw_cc_data = <<>>
    /\ pending = 0
    /\ generated = <<>>
    /\ checked = <<>>

AppUnchanged == UNCHANGED <<now, output, raw_cc_data, pending, generated, checked>>

FnAlphabet == Digits \cup {" "}

InitFn ==
    /\ arg \in StringsOver(FnAlphabet, 0, MaxLen)
    /\ ret = "none"
    /\ pc = "input"
    /\ AppIdle

CallLuhnCheck ==
    /\ pc = "input"
    /\ ret' = luhn_check(arg)
    /\ pc' = "luhn_check"
    /\ UNCHANGED arg
    /\ AppUnchanged

CallGenerateCheckDigit ==
    /\ pc = "input"
    /\ ret' = generate_check_digit(arg)
    /\ pc' = "generate_check_digit"
    /\ UNCHANGED arg
    /\ AppUnchanged

\* partial_card + str(check_digit), then luhn_check of the result
AppendCheckDigit ==
    /\ pc = "generate_check_digit"
    /\ arg' = arg \o IntStr(ret)
    /\ ret' = luhn_check(arg')
    /\ pc' = "appended"
    /\ AppUnchanged

CallGetCardType ==
    /\ pc = "input"
    /\ ret' = get_card_type(arg)
    /\ pc' = "get_card_type"
    /\ UNCHANGED arg
    /\ AppUnchanged

NextFn ==
    \/ CallLuhnCheck
    \/ CallGenerateCheckDigit
    \/ AppendCheckDigit
    \/ CallGetCardType

SpecFn == InitFn /\ [][NextFn]_vars

-----------------------------------------------------------------------------
(* generate_cc_from_bin applied to BINs of 15 - MaxMissing .. 17 digits.    *)

\* Leading characters of the BINs tried: one or more per row of the prefix
\* table, some matching no row, some holding characters that are not digits.
BinHeads ==
    {<<>>, <<"4">>, <<"5", "1">>, <<"2", "7">>, <<"3", "4">>, <<"3", "7">>,
     <<"3", "0", "5">>, <<"3", "6">>, <<"6", "0", "1", "1">>, <<"6", "2", "2">>,
     <<"3", "5">>, <<"3">>, <<"9", "9">>, <<"3", " ", "7">>, <<"x", "4">>,
     <<"3", "x", "4", " ">>}

\* head, filled up with digits to n digits in all (head itself when it has n or more)
FillTo(head, n) ==
    LET have == Len(DigitsOnly(head))
    IN  head \o [i \in 1..(IF n > have THEN n - have ELSE 0) |-> DigitStr((3 * i + have) % 10)]

SynthBins == {FillTo(h, n) : h \in BinHeads, n \in (15 - MaxMissing)..17}

InitSynth ==
    /\ arg \in SynthBins
    /\ ret = "none"
    /\ pc = "input"
    /\ AppIdle

CallGenerateCC ==
    /\ pc = "input"
    /\ \E draws \in [1..NumDraws(arg) -> 0..9] :
          ret' = generate_cc_from_bin(arg, draws)
    /\ pc' = "generate_cc_from_bin"
    /\ UNCHANGED arg
    /\ AppUnchanged

NextSynth == CallGenerateCC

SpecSynth == InitSynth /\ [][NextSynth]_vars

-----------------------------------------------------------------------------
(* validate_cc_entries applied to lists of at most MaxEntries entries.      *)

\* the serialized record number|month|year|cvv
Entry(number, month, year, cvv) ==
    number \o <<"|">> \o month \o <<"|">> \o year \o <<"|">> \o cvv

\* The instant at which the validation runs: June 2026.
NowInstants == {<<2026, 6>>}

\* Every combination of a passing and a failing number, date and CVV.
CoreEntries ==
    {Entry(n, <<"1", "2">>, y, c) :
        n \in {<<"1", "8">>, <<"1", "9">>},
        y \in {<<"2", "0", "9", "9">>, <<"2", "0", "2", "0">>},
        c \in {<<"1", "2", "3">>, <<"1", "2">>}}

\* Number fields: with blanks, without any digit, of several networks.
NumberFields ==
    {<<"1", " ", "8">>,
     <<>>,
     <<"x">>,
     <<"3", "4">>,
     <<"3", "7">>,
     <<"4", "1", "1", "1", " ", "1", "1", "1", "1", " ", "1", "1", "1", "1", " ", "1", "1", "1", "1">>,
     <<"4", "1", "1", "1", "1", "1", "1", "1", "1", "1", "1", "1", "1", "1", "1", "2">>,
     <<"3", "7", "1", "4", " ", "4", "9", "6", "3", "5", "3", " ", "9", "8", "4", "3", "1">>,
     <<"I", "n", "v", "a", " ", "l", "i", "d", " ", " ", "B", "I", "N">>}

\* Month fields, tried with the year 2026 of NowInstants.
MonthFields ==
    {<<"0", "1">>,
     <<"1">>,
     <<"x">>,
     <<"1", "3">>,
     <<>>,
     <<"0", "0">>,
     <<" ", "7">>,
     <<"0", "6">>,
     <<"0", "7">>,
     <<"1", "2">>}

\* Year fields, tried with month 06.
YearFields ==
    {<<"2", "0", "2", "5">>,
     <<"2", "0", "2", "7">>,
     <<"2", "0", "x", "6">>,
     <<>>,
     <<"0">>,
     <<"1", "0", "0", "0", "0">>}

CvvFields ==
    {<<"1", "2", "3", "4">>,
     <<"1", "2", "3", "4", "5">>,
     <<"1", "2", "x">>,
     <<>>,
     <<"1", "2", "3", " ">>}

\* Entries that are blank, or have fewer or more than 4 fields.
OddEntries ==
    {<<>>,
     <<" ">>,
     <<"b", "a", "d", "|", "e", "n", "t", "r", "y">>,
     <<"1", "8", "|", "1", "2", "|", "2", "0", "9", "9">>,
     <<"1", "8", "|", "1", "2", "|", "2", "0", "9", "9", "|", "1", "2", "3", "|", "e", "x", "t", "r", "a">>,
     <<"|", "|", "|">>}

EntryChoices ==
    CoreEntries
    \cup {Entry(n, <<"1", "2">>, <<"2", "0", "9", "9">>, <<"1", "2", "3">>) : n \in NumberFields}
    \cup {Entry(<<"1", "8">>, m, <<"2", "0", "2", "6">>, <<"1", "2", "3">>) : m \in MonthFields}
    \cup {Entry(<<"1", "8">>, <<"0", "6">>, y, <<"1", "2", "3">>) : y \in YearFields}
    \cup {Entry(<<"1", "8">>, <<"1", "2">>, <<"2", "0", "9", "9">>, c) : c \in CvvFields}
    \cup OddEntries

InitValidate ==
    /\ arg \in UNION {[1..n -> EntryChoices] : n \in 0..MaxEntries}
    /\ now \in NowInstants
    /\ ret = "none"
    /\ pc = "input"
    /\ output = <<>>
    /\ raw_cc_data = <<>>
    /\ pending = 0
    /\ generated = <<>>
    /\ checked = <<>>

CallValidate ==
    /\ pc = "input"
    /\ ret' = validate_cc_entries(arg, now)
    /\ pc' = "validated"
    /\ UNCHANGED arg
    /\ AppUnchanged

NextValidate == CallValidate

SpecValidate == InitValidate /\ [][NextValidate]_vars

-----------------------------------------------------------------------------
(* generate_exp_date and generate_cvv.                                      *)

\* The results of random.randint(a, b) that are tried: the two ends.
RandomInts(a, b) == {a, b}

\* The results of n successive random.randint(0, 9) calls that are tried here:
\* 9, 6, 3, 0, ...  (CallGenerateCC tries every result.)
RandomDigits(n) == {[i \in 1..n |-> (7 * i + 2) % 10]}

\* f"{month:02}"
PadTwo(n) == IF n < 10 THEN <<"0">> \o IntStr(n) ELSE IntStr(n)

\* the years generate_exp_date draws from
exp_years(current_year) == RandomInts(current_year + 1, current_year + 6)

\* generate_exp_date, given what its two random.randint calls return
generate_exp_date(month, year) == <<PadTwo(month), IntStr(year)>>

\* generate_cvv, given what its three random.randint(0, 9) calls return
generate_cvv(draws) == [i \in 1..3 |-> DigitStr(draws[i])]

-----------------------------------------------------------------------------
(* ResultsPanel.                                                            *)

S_Generated == <<"G", "e", "n", "e", "r", "a", "t", "e", "d">>
S_GeneratedSp == <<"G", "e", "n", "e", "r", "a", "t", "e", "d", " ">>
S_CardsWithBin ==
    <<" ", "c", "a", "r", "d", "s", " ", "w", "i", "t", "h", " ", "B", "I", "N", ":",
      " ">>
S_Banner ==
    <<"=", "=", "=", " ", "V", "A", "L", "I", "D", "A", "T", "I", "O", "N", " ", "R",
      "E", "S", "U", "L", "T", "S", " ", "=", "=", "=", "\n">>
S_Fetching ==
    <<"F", "e", "t", "c", "h", "i", "n", "g", " ", "B", "I", "N", " ", "i", "n", "f",
      "o", "r", "m", "a", "t", "i", "o", "n", ".", ".", ".">>
S_BinOpen == <<"B", "I", "N", " ", "(">>
S_BinClose == <<")", ":", " ">>
S_BinArrow == <<" ", "→", " ">>
S_BinInfoNA ==
    <<"B", "I", "N", " ", "I", "n", "f", "o", ":", " ", "N", "o", "t", " ", "a", "v",
      "a", "i", "l", "a", "b", "l", "e">>
\* "|" in text
HasBar(text) == \E i \in 1..Len(text) : text[i] = "|"

\* ResultsPanel.append, on the panel p = [output, raw_cc_data]
panel_append_any(p, text, is_cc_data) ==
    [output |-> Append(p.output, text),
     raw_cc_data |-> IF HasBar(text) /\ ~StartsWith(text, S_Generated)
                     THEN Append(p.raw_cc_data, text)
                     ELSE p.raw_cc_data]

panel_append(p, text, is_cc_data) ==
    [output |-> Append(p.output, text),
     raw_cc_data |-> IF is_cc_data /\ HasBar(text) /\ ~StartsWith(text, S_Generated)
                     THEN Append(p.raw_cc_data, text)
                     ELSE p.raw_cc_data]

\* ResultsPanel.clear
panel_clear(p) == [output |-> <<>>, raw_cc_data |-> <<>>]

\* append called for each of texts, from the k-th on
RECURSIVE AppendAll(_, _, _, _)
AppendAll(p, texts, k, is_cc_data) ==
    IF k > Len(texts) THEN p
    ELSE AppendAll(panel_append(p, texts[k], is_cc_data), texts, k + 1, is_cc_data)

Panel == [output |-> output, raw_cc_data |-> raw_cc_data]

SetPanel(p) == output' = p.output /\ raw_cc_data' = p.raw_cc_data

-----------------------------------------------------------------------------
(* The screens and the application.                                         *)

\* text.strip().replace(" ", "")
RemoveSpaces(text) == SelectSeq(text, LAMBDA c : c # " ")

\* What the user may have typed into GeneratorScreen.bin_input.
BinInputs ==
    {<<"4", "1", "1", "1", "1", "1", "1", "1", "1", "1", "1", "1", "1", "1", "1">>,
     <<"3", "7", " ", "1", "4", "|", "4", "9", "6", "3", "5", "3", "9", " ", "8", "4", "3">>,
     <<"4", "1", "1", "1", "1", "1", "1", "1", "1", "1", "1", "1", "1", "1", "1", "1">>,
     <<"4", "1", "1", "1", "1">>}

\* What the user may have typed into BinScreen.cc_input.
CcInputs ==
    {<<"3", "7", "1", "4", " ", "4", "9", "6", "3">>,
     <<"4", "1", "|", "1", "1">>}

\* What check_bin_info returns: the lookup service decides.
BinInfoAnswers ==
    {S_BinInfoNA,
     <<"B", "I", "N", " ", "I", "n", "f", "o", ":", " ", "A", "|", "B", " ", "B", "a", "n", "k", " ", "(", "U", "n", "k", "n", "o", "w", "n", " ", "C", "o", "u", "n", "t", "r", "y", ")", " ", "-", " ", "d", "e", "b", "i", "t", " ", "v", "i", "s", "a">>}

\* The instants at which handlers run, in order: one in a year, one in the next.
ClockInstants == << <<2026, 12>>, <<2027, 2>> >>

\* The random draws behind one generated card.
CardDraws(bin_input, current_date) ==
    [digits : RandomDigits(NumDraws(bin_input)),
     month : RandomInts(1, 12),
     year : exp_years(current_date[1]),
     cvv : RandomDigits(3)]

\* One iteration of the loop of generate_cards: the text appended.
card_line(bin_input, d) ==
    LET card == generate_cc_from_bin(bin_input, d.digits)
        exp == generate_exp_date(d.month, d.year)
        cvv == generate_cvv(d.cvv)
        card_type == get_card_type(card)
        formatted == format_card(card, card_type)
    IN  formatted \o <<"|">> \o exp[1] \o <<"|">> \o exp[2] \o <<"|">> \o cvv

\* The handlers leave the locals of check_generated_cards behind.
NoCheck == arg' = <<>> /\ ret' = "none" /\ checked' = <<>>

InitApp ==
    /\ arg = <<>>
    /\ ret = "none"
    /\ pc = "idle"
    /\ now = ClockInstants[1]
    /\ output = <<>>
    /\ raw_cc_data = <<>>
    /\ pending = 0
    /\ generated = <<>>
    /\ checked = <<>>

\* Time passes.
Tick ==
    /\ \E i \in 1..(Len(ClockInstants) - 1) :
          now = ClockInstants[i] /\ now' = ClockInstants[i + 1]
    /\ UNCHANGED <<arg, ret, pc, output, raw_cc_data, pending, generated, checked>>

\* GeneratorScreen.generate_cards
GenerateCards ==
    \E text \in BinInputs, count \in 1..MaxCount :
        LET bin_input == RemoveSpaces(text)
        IN  IF bin_input = <<>> \/ Len(bin_input) < 6
            THEN /\ pc' = "popup: Error"
                 /\ NoCheck
                 /\ UNCHANGED <<now, output, raw_cc_data, pending, generated>>
            ELSE /\ Len(output) + 1 + count <= MaxLines
                 /\ \E draws \in [1..count -> CardDraws(bin_input, now)] :
                      LET header == S_GeneratedSp \o IntStr(count) \o S_CardsWithBin
                                    \o bin_input
                          lines == [i \in 1..count |-> card_line(bin_input, draws[i])]
                      IN  /\ SetPanel(AppendAll(panel_append(Panel, header, FALSE),
                                                lines, 1, TRUE))
                          /\ generated' = generated \o
                                [i \in 1..count |->
                                    [text |-> lines[i], year |-> now[1],
                                     fits |-> missing_digits(bin_input) >= 1]]
                 /\ pc' = "idle"
                 /\ NoCheck
                 /\ UNCHANGED <<now, pending>>

\* BinScreen.extract_bin
ExtractBin ==
    \E text \in CcInputs, bin_length \in {6, 8} :
        LET cc_number == RemoveSpaces(text)
        IN  IF cc_number = <<>> \/ Len(cc_number) < bin_length
            THEN /\ pc' = "popup: Error"
                 /\ NoCheck
                 /\ UNCHANGED <<now, output, raw_cc_data, pending, generated>>
            ELSE /\ Len(output) + 1 <= MaxLines
                 /\ LET bin_value == Slice(cc_number, 0, bin_length)
                        card_type == get_card_type(bin_value)
                    IN  SetPanel(panel_append(Panel,
                            S_BinOpen \o IntStr(bin_length) \o S_BinClose \o bin_value
                            \o S_BinArrow \o card_type, FALSE))
                 /\ pc' = "idle"
                 /\ NoCheck
                 /\ UNCHANGED <<now, pending, generated>>

\* BinScreen.check_bin_info: the lookup runs in a thread of its own
CheckBinInfo ==
    \E text \in CcInputs :
        LET cc_number == RemoveSpaces(text)
        IN  IF cc_number = <<>> \/ Len(cc_number) < 6
            THEN /\ pc' = "popup: Error"
                 /\ NoCheck
                 /\ UNCHANGED <<now, output, raw_cc_data, pending, generated>>
            ELSE /\ Len(output) + 1 <= MaxLines
                 /\ pending < MaxPending
                 /\ SetPanel(panel_append(Panel, S_Fetching, FALSE))
                 /\ pending' = pending + 1
                 /\ pc' = "idle"
                 /\ NoCheck
                 /\ UNCHANGED <<now, generated>>

\* The callback fetch_bin_info schedules: the answer of one lookup is appended.
BinInfoArrives ==
    /\ pending > 0
    /\ Len(output) + 1 <= MaxLines
    /\ \E bin_info \in BinInfoAnswers : SetPanel(panel_append(Panel, bin_info, FALSE))
    /\ pending' = pending - 1
    /\ pc' = "idle"
    /\ NoCheck
    /\ UNCHANGED <<now, generated>>

\* CreditCardApp.check_generated_cards
CheckGenerated ==
    LET entries == raw_cc_data
    IN  IF entries = <<>>
        THEN /\ pc' = "popup: Info"
             /\ arg' = <<>>
             /\ ret' = "none"
             /\ checked' = generated
             /\ UNCHANGED <<now, output, raw_cc_data, pending, generated>>
        ELSE LET validation_results == validate_cc_entries(entries, now)
             IN  /\ SetPanel(AppendAll(panel_append(panel_clear(Panel), S_Banner, FALSE),
                                       validation_results, 1, FALSE))
                 /\ arg' = entries
                 /\ ret' = validation_results
                 /\ pc' = "validated"
                 /\ checked' = generated
                 /\ generated' = <<>>
                 /\ UNCHANGED <<now, pending>>

\* CreditCardApp.clear_results
ClearResults ==
    /\ SetPanel(panel_clear(Panel))
    /\ generated' = <<>>
    /\ pc' = "idle"
    /\ NoCheck
    /\ UNCHANGED <<now, pending>>

Next ==
    \/ Tick
    \/ GenerateCards
    \/ ExtractBin
    \/ CheckBinInfo
    \/ BinInfoArrives
    \/ CheckGenerated
    \/ ClearResults

Spec == InitApp /\ [][Next]_vars

-----------------------------------------------------------------------------
(* Properties of the checksum, the classifier and the synthesizer.          *)

AllDigits(s) == \A i \in 1..Len(s) : IsDigit(s[i])

\* The reference Luhn sum of digit string d from position p on, positions
\* counted from the rightmost digit as 0: the digits at odd positions doubled,
\* less 9 when the doubled value exceeds 9.
RECURSIVE RefLuhnSum(_, _)
RefLuhnSum(d, p) ==
    IF p >= Len(d) THEN 0
    ELSE LET v == DigitVal(d[Len(d) - p])
             w == IF p % 2 = 1 THEN (IF 2 * v > 9 THEN 2 * v - 9 ELSE 2 * v) ELSE v
         IN  w + RefLuhnSum(d, p + 1)

RefLuhnValid(d) == RefLuhnSum(d, 0) % 10 = 0

\* C1: for every digit sequence P with at least one digit the check digit of
\* P is a single digit 0..9, and P with its check digit appended passes
\* luhn_check.
C1_CheckDigitMakesValid ==
    /\ (pc = "generate_check_digit" /\ AllDigits(arg) /\ Len(arg) >= 1)
          => ret \in 0..9
    /\ (pc = "appended" /\ AllDigits(arg) /\ Len(arg) >= 2)
          => ret = TRUE

C1_Witness ==
    /\ pc = "appended"
    /\ arg = <<"7", "9", "9", "7">>
    /\ ret = TRUE

\* C3: for every digit sequence D, luhn_check(D) is the result of the
\* reference Luhn computation, and the sequence of no digits gives true.
C3_LuhnMatchesReference ==
    /\ (pc = "luhn_check" /\ AllDigits(arg)) => ret = RefLuhnValid(arg)
    /\ (pc = "luhn_check" /\ arg = <<>>) => ret = TRUE

C3_Witness ==
    /\ pc = "luhn_check"
    /\ arg = <<"5", "9">>
    /\ ret = TRUE

\* The number the first k digits of d spell, -1 when d has fewer than k.
RECURSIVE LeadingNumber(_, _)
LeadingNumber(d, k) ==
    IF Len(d) < k THEN -1
    ELSE IF k = 0 THEN 0
    ELSE 10 * LeadingNumber(d, k - 1) + DigitVal(d[k])

\* Row r of the prefix table matches digit string d.
RowMatches(r, d) ==
    CASE r = 1 -> LeadingNumber(d, 1) = 4
      [] r = 2 -> LeadingNumber(d, 2) \in (51..55) \cup (22..27)
      [] r = 3 -> LeadingNumber(d, 2) \in {34, 37}
      [] r = 4 -> LeadingNumber(d, 3) \in 300..305 \/ LeadingNumber(d, 2) \in {36, 38}
      [] r = 5 -> \/ LeadingNumber(d, 4) = 6011
                  \/ LeadingNumber(d, 2) \in {65, 64}
                  \/ LeadingNumber(d, 3) = 622
      [] r = 6 -> LeadingNumber(d, 2) = 35

RowType(r) ==
    CASE r = 1 -> T_Visa
      [] r = 2 -> T_Mastercard
      [] r = 3 -> T_Amex
      [] r = 4 -> T_Diners
      [] r = 5 -> T_Discover
      [] r = 6 -> T_JCB

\* C4: get_card_type follows the prefix table; a digit string matches at most
\* one row, the result is that row's network, and Unknown when no row matches
\* (the empty string included).
C4_ClassifyFollowsTable ==
    (pc = "get_card_type" /\ AllDigits(arg)) =>
        LET rows == {r \in 1..6 : RowMatches(r, arg)}
        IN  /\ Cardinality(rows) <= 1
            /\ \A r \in rows : ret = RowType(r)
            /\ rows = {} => ret = T_Unknown

C4_Witness ==
    /\ pc = "get_card_type"
    /\ arg = <<"6", "0", "1", "1">>
    /\ ret = T_Discover

\* expectedLength of the network a prefix classifies as
ExpectedLength(prefix) == IF get_card_type(prefix) = T_Amex THEN 15 ELSE 16

\* C2: for a prefix with fewer digits than the expected length of its network,
\* and for every choice of the random digits, generate_cc_from_bin returns
\* exactly that many digits, starting with the digits of the prefix, and the
\* number passes luhn_check.
C2_SynthesizedIsValid ==
    (pc = "generate_cc_from_bin" /\ Len(DigitsOnly(arg)) < ExpectedLength(arg)) =>
        /\ Len(ret) = ExpectedLength(arg)
        /\ AllDigits(ret)
        /\ StartsWith(ret, DigitsOnly(arg))
        /\ luhn_check(ret)

C2_Witness ==
    /\ pc = "generate_cc_from_bin"
    /\ get_card_type(arg) = T_Amex
    /\ Len(DigitsOnly(arg)) = 13
    /\ Len(ret) = 15
    /\ ret[14] = "7"

\* C7: generate_cc_from_bin returns the 'Invalid BIN' sentinel exactly when
\* the prefix has as many digits as the expected length of its network, or
\* more; in every other case it returns a card number.
C7_InvalidBinIffTooLong ==
    pc = "generate_cc_from_bin" =>
        /\ ret = S_InvalidBIN <=> Len(DigitsOnly(arg)) >= ExpectedLength(arg)
        /\ ret # S_InvalidBIN => (AllDigits(ret) /\ Len(ret) >= 1)

C7_Witness ==
    /\ pc = "generate_cc_from_bin"
    /\ get_card_type(arg) = T_Amex
    /\ Len(DigitsOnly(arg)) = 15
    /\ ret = S_InvalidBIN

-----------------------------------------------------------------------------
(* Properties of the batch validator.                                       *)

EndsWith(s, t) == Len(s) >= Len(t) /\ SubSeq(s, Len(s) - Len(t) + 1, Len(s)) = t

Contains(s, t) == \E i \in 1..(Len(s) - Len(t) + 1) : SubSeq(s, i, i + Len(t) - 1) = t

\* the entries that are not blank: those with a character other than a blank
NonBlank(entries) == SelectSeq(entries, LAMBDA e : \E i \in 1..Len(e) : e[i] # " ")

\* a result line carrying the VALID tag (and nothing after it)
TaggedValid(line) == EndsWith(line, S_Arrow \o S_VALID)

\* a result line carrying the INVALID tag followed by the list of reasons
TaggedInvalid(line, reasons) ==
    EndsWith(line, S_Arrow \o S_INVALID \o <<" ", "[">> \o JoinComma(reasons) \o <<"]">>)

\* s is no integer literal
NotIntLiteral(s) == Strip(s) = <<>> \/ ~AllDigits(Strip(s))

\* The first day of month m of year y exists and lies after instant t.
RefNotExpired(m, y, t) ==
    /\ ~NotIntLiteral(m)
    /\ ~NotIntLiteral(y)
    /\ DecimalValue(Strip(m)) \in 1..12
    /\ DecimalValue(Strip(y)) \in 1..9999
    /\ 12 * DecimalValue(Strip(y)) + DecimalValue(Strip(m)) > 12 * t[1] + t[2]

RefCvvOk(c) == Len(c) \in {3, 4} /\ AllDigits(c)

\* C5: an entry with at least 4 fields is tagged VALID iff its number is
\* Luhn-valid, its date is not expired and its CVV is 3 or 4 digits; otherwise
\* it is tagged INVALID with the non-empty list of exactly the failed checks,
\* in the order Luhn, date, CVV; a VALID line carries no reason.
C5_ValidIffAllChecksPass ==
    pc = "validated" =>
        LET es == NonBlank(arg)
        IN  \A j \in 1..Len(es) :
              Len(Split(es[j])) >= 4 =>
                LET f == Split(es[j])
                    luhnOk == RefLuhnValid(DigitsOnly(f[1]))
                    dateOk == RefNotExpired(f[2], f[3], now)
                    cvvOk == RefCvvOk(f[4])
                    reasons == (IF luhnOk THEN <<>> ELSE <<S_LuhnFailed>>)
                               \o (IF dateOk THEN <<>> ELSE <<S_DateFailed>>)
                               \o (IF cvvOk THEN <<>> ELSE <<S_CvvFailed>>)
                IN  /\ j < Len(ret)
                    /\ TaggedValid(ret[j]) <=> (luhnOk /\ dateOk /\ cvvOk)
                    /\ ~TaggedValid(ret[j]) =>
                          (reasons # <<>> /\ TaggedInvalid(ret[j], reasons))

C5_Witness ==
    /\ pc = "validated"
    /\ Len(arg) = 2
    /\ arg[1] = Entry(<<"1", "9">>, <<"1", "2">>, <<"2", "0", "2", "0">>, <<"1", "2">>)
    /\ arg[2] = Entry(<<"1", "8">>, <<"1", "2">>, <<"2", "0", "9", "9">>, <<"1", "2", "3">>)
    /\ TaggedInvalid(ret[1], <<S_LuhnFailed, S_DateFailed, S_CvvFailed>>)
    /\ TaggedValid(ret[2])

\* the number of result lines tagged VALID among the first n
RECURSIVE CountValid(_, _)
CountValid(lines, n) ==
    IF n = 0 THEN 0
    ELSE CountValid(lines, n - 1) + (IF TaggedValid(lines[n]) THEN 1 ELSE 0)

\* C6: validate returns exactly one summary line, as its last element; its
\* totalCount is the number of non-blank entries (entries with fewer than 4
\* fields counted), its validCount the number of lines tagged VALID, so
\* validCount <= totalCount; an empty input gives only '0/0 valid cards'.
C6_SummaryLastAndCounts ==
    pc = "validated" =>
        LET n == Len(ret) - 1
            total == Len(NonBlank(arg))
            valid == CountValid(ret, n)
        IN  /\ Len(ret) >= 1
            /\ ret[Len(ret)] = S_Summary \o IntStr(valid) \o <<"/">> \o IntStr(total)
                               \o S_ValidCards
            /\ \A j \in 1..n : ~StartsWith(ret[j], S_Summary)
            /\ valid <= total
            /\ arg = <<>> =>
                  ret = <<S_Summary \o <<"0", "/", "0">> \o S_ValidCards>>

C6_Witness ==
    /\ pc = "validated"
    /\ arg = << <<" ">>, <<"b", "a", "d", "|", "e", "n", "t", "r", "y">> >>
    /\ ret = << S_InvalidFormat \o <<"b", "a", "d", "|", "e", "n", "t", "r", "y">>,
                S_Summary \o <<"0", "/", "1">> \o S_ValidCards >>

\* an entry with at least 4 fields whose month or year is no integer literal
BadDateLiteral(e) ==
    /\ Len(Split(e)) >= 4
    /\ NotIntLiteral(Split(e)[2]) \/ NotIntLiteral(Split(e)[3])

\* C8 as stated: an entry with at least 4 fields whose month or year is not an
\* integer literal surfaces as an '[Error processing]' line, and every entry
\* still gets its line and the summary is produced.
C8_BadDateGivesErrorLine ==
    pc = "validated" =>
        LET es == NonBlank(arg)
        IN  /\ Len(ret) = Len(es) + 1
            /\ StartsWith(ret[Len(ret)], S_Summary)
            /\ \A j \in 1..Len(es) :
                  BadDateLiteral(es[j]) =>
                      (j < Len(ret) /\ StartsWith(ret[j], S_ErrorProcessing))

\* C8 as amended: such an entry gets an ordinary INVALID line whose reasons
\* include 'Expired or invalid date' and no '[Error processing]' line; every
\* non-blank entry still gets its own line and the summary is produced.
C8_BadDateGivesInvalidLine ==
    pc = "validated" =>
        LET es == NonBlank(arg)
        IN  /\ Len(ret) = Len(es) + 1
            /\ StartsWith(ret[Len(ret)], S_Summary)
            /\ \A j \in 1..Len(es) :
                  BadDateLiteral(es[j]) =>
                      /\ j < Len(ret)
                      /\ ~StartsWith(ret[j], S_ErrorProcessing)
                      /\ Contains(ret[j], S_Arrow \o S_INVALID \o <<" ", "[">>)
                      /\ Contains(ret[j], S_DateFailed)
                      /\ EndsWith(ret[j], <<"]">>)

C8_Witness ==
    /\ pc = "validated"
    /\ Len(arg) = 2
    /\ arg[1] = Entry(<<"1", "8">>, <<"x">>, <<"2", "0", "2", "6">>, <<"1", "2", "3">>)
    /\ arg[2] = Entry(<<"1", "8">>, <<"1", "2">>, <<"2", "0", "9", "9">>, <<"1", "2", "3">>)
    /\ TaggedInvalid(ret[1], <<S_DateFailed>>)
    /\ TaggedValid(ret[2])
    /\ Len(ret) = 3

\* C10: validate never tags as VALID, nor counts as valid, an entry whose
\* number field contains no digit.
C10_NoDigitsNeverValid ==
    pc = "validated" =>
        LET es == NonBlank(arg)
        IN  \A j \in 1..Len(es) :
              (Len(Split(es[j])) >= 4 /\ DigitsOnly(Split(es[j])[1]) = <<>>) =>
                  (j < Len(ret) /\ ~TaggedValid(ret[j]))

-----------------------------------------------------------------------------
(* Properties of the application.                                           *)

\* the texts of the records in rs, in order
Texts(rs) == [i \in 1..Len(rs) |-> rs[i].text]

\* the summary line reporting k of k valid cards
SummaryAllValid(k) == S_Summary \o IntStr(k) \o <<"/">> \o IntStr(k) \o S_ValidCards

\* The panel holds exactly the records generated since the last clear, in
\* generation order; Check Generated validated exactly those it found.
ValidatesGenerated ==
    /\ raw_cc_data = Texts(generated)
    /\ pc = "validated" =>
          /\ arg = Texts(checked)
          /\ output = <<S_Banner>> \o ret

\* every record Check Generated found comes from a BIN with fewer digits than
\* its network's length and was generated in the year of the check
CheckedInScope == \A i \in 1..Len(checked) : checked[i].fits /\ checked[i].year = now[1]

\* Check Generated tagged each of the k records it found VALID and reported k/k.
ReportsAllValid ==
    LET k == Len(checked)
    IN  /\ pc = "validated"
        /\ Len(ret) = k + 1
        /\ \A j \in 1..k : TaggedValid(ret[j])
        /\ ret[k + 1] = SummaryAllValid(k)

\* Check Generated has just run.
CheckedNow == pc = "validated" \/ pc = "popup: Info"

=============================================================================
